---------------------------- MODULE Spec2Model ----------------------------
(***************************************************************************)
(* Model of parser.py: extraction of the Cartesian geometry block of a     *)
(* quantum-chemistry .out file into geometry.txt, the first token of each  *)
(* row being replaced by an integer mass.                                  *)
(*                                                                         *)
(* A text is a sequence of one-character strings; a file is a text; a line *)
(* is a text that holds at most one "\n", at its end.                      *)
(***************************************************************************)
EXTENDS Integers, Sequences, FiniteSets, TLC

(* ------------------------------ bounds --------------------------------- *)

\* number of chunks an input file is assembled from
MaxChunks == 4

\* number of data rows that follow the header in a laid-out input file
MaxRows == 2

\* number of runs of main over the same input
MaxRuns == 2

\* number of lines of an input file of swap_specific_lines
MaxSwapLines == 32

(* --------------------------- characters -------------------------------- *)

\* str.isspace() / regex \s, restricted to the characters of the model
Whitespace == {" ", "\t", "\n", "\r", "\f"}

IsSpace(c) == c \in Whitespace

UpperCase == <<"A","B","C","D","E","F","G","H","I","J","K","L","M",
               "N","O","P","Q","R","S","T","U","V","W","X","Y","Z">>

LowerCase == <<"a","b","c","d","e","f","g","h","i","j","k","l","m",
               "n","o","p","q","r","s","t","u","v","w","x","y","z">>

LowerSet == {LowerCase[k] : k \in 1..26}

UpperSet == {UpperCase[k] : k \in 1..26}

\* case folding of re.IGNORECASE on ASCII letters
Fold(c) ==
    IF c \in LowerSet
    THEN UpperCase[CHOOSE k \in 1..26 : LowerCase[k] = c]
    ELSE c

\* ord(c) for the characters sorted() has to compare
Ord(c) ==
    IF c \in UpperSet
    THEN 64 + (CHOOSE k \in 1..26 : UpperCase[k] = c)
    ELSE IF c \in LowerSet
    THEN 96 + (CHOOSE k \in 1..26 : LowerCase[k] = c)
    ELSE 0

(* ------------------------- text primitives ----------------------------- *)

\* s[a:b] of Python, 0-based, a <= b <= len(s)
Slice(s, a, b) == SubSeq(s, a + 1, b)

RECURSIVE Concat(_)
\* "".join(parts)
Concat(parts) ==
    IF parts = <<>> THEN <<>> ELSE Head(parts) \o Concat(Tail(parts))

RECURSIVE lstrip(_)
lstrip(s) ==
    IF s # <<>> /\ IsSpace(Head(s)) THEN lstrip(Tail(s)) ELSE s

RECURSIVE rstrip(_)
rstrip(s) ==
    IF s # <<>> /\ IsSpace(s[Len(s)]) THEN rstrip(SubSeq(s, 1, Len(s) - 1)) ELSE s

\* str.strip()
strip(s) == lstrip(rstrip(s))

RECURSIVE rstrip_nl(_)
\* str.rstrip("\n")
rstrip_nl(s) ==
    IF s # <<>> /\ s[Len(s)] = "\n" THEN rstrip_nl(SubSeq(s, 1, Len(s) - 1)) ELSE s

RECURSIVE Digits(_)
Digits(n) ==
    IF n < 10 THEN <<<<"0","1","2","3","4","5","6","7","8","9">>[n + 1]>>
    ELSE Digits(n \div 10) \o Digits(n % 10)

\* str(n) for n >= 0
Str(n) == Digits(n)

(* --------------------------- configuration ----------------------------- *)

\* keys of MASS_BY_SYMBOL in insertion order
MassKeys == << <<"N">>, <<"C">>, <<"O">>, <<"H">> >>

\* a table in which the masses of N and C changed places
MassValues_swapped == <<12, 14, 16, 1>>

\* values of MASS_BY_SYMBOL, in the order of MassKeys
MassValues == <<14, 12, 16, 1>>

InMassTable(tok) == \E k \in 1..Len(MassKeys) : MassKeys[k] = tok

MASS_BY_SYMBOL(tok) == MassValues[CHOOSE k \in 1..Len(MassKeys) : MassKeys[k] = tok]

\* str < str of Python: lexicographic by code point
RECURSIVE StrLess(_, _)
StrLess(a, b) ==
    IF b = <<>> THEN FALSE
    ELSE IF a = <<>> THEN TRUE
    ELSE IF Ord(Head(a)) # Ord(Head(b)) THEN Ord(Head(a)) < Ord(Head(b))
    ELSE StrLess(Tail(a), Tail(b))

RECURSIVE Insert(_, _)
Insert(x, sortedSeq) ==
    IF sortedSeq = <<>> THEN <<x>>
    ELSE IF StrLess(x, Head(sortedSeq)) THEN <<x>> \o sortedSeq
    ELSE <<Head(sortedSeq)>> \o Insert(x, Tail(sortedSeq))

\* the keys as the dict lists them
sorted_asis(keys) == keys

RECURSIVE sorted(_)
\* sorted(keys)
sorted(keys) ==
    IF keys = <<>> THEN <<>> ELSE Insert(Head(keys), sorted(Tail(keys)))

\* the literal words of GEOM_HEADER_PATTERN
W_CARTESIAN == <<"C","A","R","T","E","S","I","A","N">>

W_COORDINATES == <<"C","O","O","R","D","I","N","A","T","E","S">>

W_ANGSTROEM == <<"(","A","N","G","S","T","R","O","E","M",")">>

\* the literal `word` matches s at 0-based offset p, ignoring case
MatchLit(s, p, word) ==
    /\ p + Len(word) <= Len(s)
    /\ \A k \in 1..Len(word) : Fold(s[p + k]) = Fold(word[k])

RECURSIVE SkipSpace(_, _)
\* offset after the maximal run of \s starting at offset p
SkipSpace(s, p) ==
    IF p < Len(s) /\ IsSpace(s[p + 1]) THEN SkipSpace(s, p + 1) ELSE p

\* GEOM_HEADER_PATTERN matches s starting at offset p
HeaderAt(s, p) ==
    /\ MatchLit(s, p, W_CARTESIAN)
    /\ LET a == p + Len(W_CARTESIAN)
           b == SkipSpace(s, a)
       IN  /\ b > a
           /\ MatchLit(s, b, W_COORDINATES)
           /\ MatchLit(s, SkipSpace(s, b + Len(W_COORDINATES)), W_ANGSTROEM)

\* GEOM_HEADER_PATTERN.search(s) is not None
GEOM_HEADER_PATTERN(s) == \E p \in 0..Len(s) : HeaderAt(s, p)

\* result of a failed match / absent value
None == [none |-> TRUE]

\* FIRST_TOKEN_RE.match(s): the groups lead_ws, tok, rest, or None.
\* \s* takes the leading whitespace, \S+ the maximal run after it, and
\* .* must reach the end of s or the "\n" that ends s ("." excludes "\n").
FIRST_TOKEN_RE(s) ==
    LET a == SkipSpace(s, 0)
        nonsp == {q \in a..Len(s) : q = Len(s) \/ IsSpace(s[q + 1])}
        b == CHOOSE q \in nonsp : \A r \in nonsp : q <= r
        tail == Slice(s, b, Len(s))
        rest == IF tail # <<>> /\ tail[Len(tail)] = "\n"
                THEN SubSeq(tail, 1, Len(tail) - 1) ELSE tail
    IN  IF a = Len(s) THEN None
        ELSE IF \E k \in 1..Len(rest) : rest[k] = "\n" THEN None
        ELSE [lead_ws |-> Slice(s, 0, a), tok |-> Slice(s, a, b), rest |-> rest]

(* ----------------------------- core logic ------------------------------ *)

RECURSIVE ScanEnd_raw(_, _)
\* a scan that ends the block only at a line that is empty before trimming
ScanEnd_raw(lines, end) ==
    IF end < Len(lines) /\ rstrip_nl(lines[end + 1]) # <<>>
    THEN ScanEnd_raw(lines, end + 1)
    ELSE end

RECURSIVE ScanEnd(_, _)
\* the while loop of find_geometry_block: end advances over non-blank lines
ScanEnd(lines, end) ==
    IF end < Len(lines) /\ strip(lines[end + 1]) # <<>>
    THEN ScanEnd(lines, end + 1)
    ELSE end

\* header_idx while it is None
NoIndex == -1

\* index of the first line the header pattern matches, or NoIndex
HeaderIdx(lines) ==
    LET hits == {i \in 0..(Len(lines) - 1) : GEOM_HEADER_PATTERN(lines[i + 1])}
    IN  IF hits = {} THEN NoIndex
        ELSE CHOOSE i \in hits : \A j \in hits : i <= j

\* a locator that starts the block three lines after the header
StartOf_late(header_idx) == header_idx + 3

\* a locator that starts the block on the line after the header
StartOf_early(header_idx) == header_idx + 1

\* first data line of the block, relative to the header
StartOf(header_idx) == header_idx + 2

find_geometry_block(lines) ==
    LET header_idx == HeaderIdx(lines)
    IN  IF header_idx = NoIndex THEN None
        ELSE LET start == StartOf(header_idx)
             IN  IF start >= Len(lines) THEN None
                 ELSE LET end == ScanEnd(lines, start)
                      IN  IF end <= start THEN None
                          ELSE [start_line |-> start, end_line |-> end,
                                lines |-> Slice(lines, start, end)]

\* the ValueError symbol_to_mass_token raises in strict mode
UnrecognizedSymbol(token) ==
    [type |-> "ValueError", token |-> token, supported |-> sorted(MassKeys)]

\* a mapping that raises for an unknown token whatever the mode
symbol_to_mass_token_raising(token, isStrict) ==
    IF InMassTable(token)
    THEN [ret |-> Str(MASS_BY_SYMBOL(token)), warn |-> FALSE, raised |-> None]
    ELSE [ret |-> <<>>, warn |-> FALSE, raised |-> UnrecognizedSymbol(token)]

\* symbol_to_mass_token: the returned token, whether the warning is logged,
\* the error raised
symbol_to_mass_token(token, isStrict) ==
    IF InMassTable(token)
    THEN [ret |-> Str(MASS_BY_SYMBOL(token)), warn |-> FALSE, raised |-> None]
    ELSE IF isStrict
    THEN [ret |-> <<>>, warn |-> FALSE, raised |-> UnrecognizedSymbol(token)]
    ELSE [ret |-> token, warn |-> TRUE, raised |-> None]

\* one iteration of the loop of transform_geometry_lines: the line appended
\* to out_lines, the token warned about (warn), the error raised
TransformOne(line, isStrict) ==
    LET m == FIRST_TOKEN_RE(rstrip_nl(line))
    IN  IF m = None
        THEN [line |-> line, warn |-> FALSE, tok |-> <<>>, raised |-> None]
        ELSE LET r == symbol_to_mass_token(m.tok, isStrict)
             IN  IF r.raised # None
                 THEN [line |-> <<>>, warn |-> FALSE, tok |-> m.tok, raised |-> r.raised]
                 ELSE [line |-> m.lead_ws \o r.ret \o m.rest \o <<"\n">>,
                       warn |-> r.warn, tok |-> m.tok, raised |-> None]

(* ---------------------------- I/O utilities ---------------------------- *)

\* an absent file
NoFile == None

\* a file holding text
File(text) == [data |-> text]

\* the characters that end a line of a file opened for reading in text mode
IsTerminator(c) == c \in {"\n", "\r"}

\* 1-based offset of the first line terminator of text, 0 if there is none
FirstTerminator(text) ==
    IF \E i \in 1..Len(text) : IsTerminator(text[i])
    THEN CHOOSE i \in 1..Len(text) :
             /\ IsTerminator(text[i])
             /\ \A j \in 1..(i - 1) : ~IsTerminator(text[j])
    ELSE 0

RECURSIVE readlines(_)
\* f.readlines() in read_text_lines: a line ends at "\n", "\r\n" or "\r",
\* each of which is read as "\n"; a last line may have no terminator
readlines(text) ==
    IF text = <<>> THEN <<>>
    ELSE LET t == FirstTerminator(text)
         IN  IF t = 0 THEN <<text>>
             ELSE LET crlf == text[t] = "\r" /\ t < Len(text) /\ text[t + 1] = "\n"
                      next == IF crlf THEN t + 2 ELSE t + 1
                  IN  <<SubSeq(text, 1, t - 1) \o <<"\n">>>>
                         \o readlines(SubSeq(text, next, Len(text)))

\* a file opened for appending
Opened_append(old) == IF old = NoFile THEN <<>> ELSE old.data

\* path.open("w") in write_text_lines: the file is created or truncated
Opened(old) == <<>>

\* a write loop that stops one line early
Written_short(lines, n) == Concat(SubSeq(lines, 1, n - 1))

\* what the first n f.write calls of write_text_lines add to the file
Written(lines, n) == Concat(SubSeq(lines, 1, n))

(* ------------------------------- state --------------------------------- *)

VARIABLES
    inputExists,   \* args.input.exists()
    inputFile,     \* content of the input file
    outdirExists,  \* the output directory exists
    geometry,      \* outdir / "geometry.txt": NoFile or File(text)
    strict,        \* args.strict
    logLevel,      \* args.log
    pc,            \* position of main
    all_lines,     \* generate_geometry_file: all_lines
    block,         \* generate_geometry_file: block
    idx,           \* transform_geometry_lines: lines of the block consumed
    out_lines,     \* transform_geometry_lines: out_lines
    transformed,   \* generate_geometry_file: transformed, None until returned
    exc,           \* the exception main caught, or None
    exitCode,      \* return value of main, Running until it returns
    log,           \* calls of the logging module of this run
    run,           \* number of the current run
    prev           \* outcome of the previous run, output files as this run found them

\* order.py, swap_specific_lines
VARIABLES
    swap_pc,         \* position of swap_specific_lines, "off" while it is not run
    swap_input,      \* the file input_filename: NoFile or File(text)
    swap_output,     \* the file output_filename: NoFile or File(text)
    swap_before,     \* output_filename as the call found it
    original_lines,  \* swap_specific_lines: original_lines
    new_lines,       \* swap_specific_lines: new_lines
    swap_done,       \* items of content_source_map the loop has applied
    swap_err         \* messages printed to sys.stderr

swapVars == <<swap_pc, swap_input, swap_output, swap_before, original_lines,
              new_lines, swap_done, swap_err>>

vars == <<inputExists, inputFile, outdirExists, geometry, strict, logLevel, pc,
          all_lines, block, idx, out_lines, transformed, exc, exitCode, log,
          run, prev, swapVars>>

\* swap_specific_lines is not run
SwapIdle ==
    /\ swap_pc = "off"
    /\ swap_input = NoFile
    /\ swap_output = NoFile
    /\ swap_before = NoFile
    /\ original_lines = <<>>
    /\ new_lines = <<>>
    /\ swap_done = 0
    /\ swap_err = <<>>

\* main has not returned
Running == -1

\* choices of --log, in ascending severity
LogLevelNames == <<"DEBUG", "INFO", "WARNING", "ERROR", "CRITICAL">>

LevelNo(name) == CHOOSE k \in 1..Len(LogLevelNames) : LogLevelNames[k] = name

\* default of --log
DefaultLog == "INFO"

\* the levels the runs of the model choose from
LogChoices == {"INFO", "ERROR"}

\* one call of logging.<level>(msg, tok); shown when the level passes --log
LogCall(level, msg, tok) ==
    [level |-> level, msg |-> msg, tok |-> tok,
     shown |-> LevelNo(level) >= LevelNo(logLevel)]

\* a header line as ORCA prints it
HDR == W_CARTESIAN \o <<" ">> \o W_COORDINATES \o <<" ">> \o W_ANGSTROEM \o <<"\n">>

\* a header line in another spelling: text before it, mixed case, a tab
\* between the words and nothing before the parenthesis
HDRVAR ==
    <<"x", " ", "c","a","r","t","e","s","i","a","n", "\t",
      "C","o","o","r","d","i","n","a","t","e","s",
      "(","a","n","g","s","t","r","o","e","m",")", "\n">>

\* not a header line: no whitespace between the first two words
NEAR == W_CARTESIAN \o W_COORDINATES \o <<" ">> \o W_ANGSTROEM \o <<"\n">>

\* the line of dashes ORCA prints under the header
DASHES == <<"-", "-", "\n">>

\* the pieces input files are assembled from
Chunks ==
    { HDR,
      <<"\n">>,
      <<"N", " ", "0", "\n">>,
      <<" ", "X", "x", " ", "2", "\n">>,
      <<"H", "\t", "1">> }

\* the pieces of the input files that exercise the block locator
HdrChunks ==
    { HDR, HDRVAR, NEAR,
      <<"\n">>,
      <<" ", "\t", "\n">>,
      <<"N", " ", "0", "\n">> }

\* data rows: the four symbols, other tokens, varied spacing and terminators
Rows ==
    { <<"N", " ", "0", "\n">>,
      <<" ", "H", "\t", "1", " ", "\n">>,
      <<"C", " ", "2", "\r", "\n">>,
      <<"O", " ", " ", "3", "\n">>,
      <<"X", "x", " ", "2", "\n">>,
      <<"n", " ", "0", "\n">>,
      <<"N", "H", " ", "1">> }

\* what follows the data rows: nothing, or a blank line and one more line
Posts == { <<>>, <<"\n", "O", " ", "9", "\n">> }

\* input files of at most n pieces of pool
Inputs(pool, n) == {Concat(cs) : cs \in UNION {[1..k -> pool] : k \in 0..n}}

\* input files laid out as ORCA does: header, dashes, at most n rows, post
LaidOut(n) ==
    {HDR \o DASHES \o body \o post : body \in Inputs(Rows, n), post \in Posts}

\* the rows of example scenario 1
ROW_N == <<"N"," "," "," ","0",".","0","0","0"," "," ","0",".","0","0","0",
           " "," ","0",".","0","0","0","\n">>

ROW_H == <<"H"," "," "," ","1",".","0","0","0"," "," ","0",".","0","0","0",
           " "," ","0",".","0","0","0","\n">>

\* five lines that precede the header of the example scenarios
Preamble == Concat([k \in 1..5 |-> <<"o", "u", "t", "\n">>])

\* header at index 5, then skipped, then the two rows and a blank line
Scenario(skipped) == Preamble \o HDR \o skipped \o ROW_N \o ROW_H \o <<"\n">>

\* the example with one and with two lines between header and rows
Scenarios ==
    { Scenario(DASHES), Scenario(DASHES \o DASHES), Scenario(DASHES \o <<"\n">>) }

\* content of a geometry.txt left by something else
Stale == <<"o", "l", "d", "\n">>

\* the state main starts in, for the given input files and flags
InitWith(files, exists, outdirs, stricts) ==
    /\ inputExists \in exists
    /\ inputFile \in (IF inputExists THEN files ELSE {<<>>})
    /\ outdirExists \in outdirs
    /\ geometry = (IF outdirExists THEN File(Stale) ELSE NoFile)
    /\ strict \in stricts
    /\ logLevel = DefaultLog
    /\ pc = "main"
    /\ all_lines = <<>>
    /\ block = None
    /\ idx = 0
    /\ out_lines = <<>>
    /\ transformed = None
    /\ exc = None
    /\ exitCode = Running
    /\ log = <<>>
    /\ run = 1
    /\ prev = [exitCode |-> Running, exc |-> None,
               geometry |-> geometry, outdirExists |-> outdirExists]
    /\ SwapIdle

\* any input file, present or missing
Init == InitWith(Inputs(Chunks, MaxChunks), BOOLEAN, BOOLEAN, BOOLEAN)

\* input files laid out as ORCA does, with varied rows
InitRows == InitWith(LaidOut(MaxRows), {TRUE}, BOOLEAN, BOOLEAN)

\* input files with varied header lines and blank lines, and the examples
InitHdr == InitWith(Inputs(HdrChunks, MaxChunks) \cup Scenarios, {TRUE}, {FALSE}, {FALSE})

(* ------------------------------ actions -------------------------------- *)

\* an except clause that logs the error and lets main return 0
Caught_zero(e) ==
    /\ exc' = e
    /\ log' = Append(log, LogCall("ERROR", "Failed to generate geometry.txt", <<>>))
    /\ exitCode' = 0
    /\ pc' = "done"

\* the except clause of main: logging.exception, return 1
Caught(e) ==
    /\ exc' = e
    /\ log' = Append(log, LogCall("ERROR", "Failed to generate geometry.txt", <<>>))
    /\ exitCode' = 1
    /\ pc' = "done"

\* main: the existence check
CheckInput ==
    /\ pc = "main"
    /\ IF ~inputExists
       THEN /\ log' = Append(log, LogCall("ERROR", "Input file not found", <<>>))
            /\ exitCode' = 2
            /\ pc' = "done"
       ELSE /\ pc' = "read"
            /\ UNCHANGED <<log, exitCode>>
    /\ UNCHANGED swapVars
    /\ UNCHANGED <<inputExists, inputFile, outdirExists, geometry, strict, logLevel,
                   all_lines, block, idx, out_lines, transformed, exc, run, prev>>

\* generate_geometry_file: read_text_lines, which the file system may fail
ReadLines ==
    /\ pc = "read"
    /\ \E ok \in BOOLEAN :
         IF ok
         THEN /\ all_lines' = readlines(inputFile)
              /\ pc' = "locate"
              /\ UNCHANGED <<exc, log, exitCode>>
         ELSE /\ Caught([type |-> "OSError", at |-> "read"])
              /\ UNCHANGED all_lines
    /\ UNCHANGED swapVars
    /\ UNCHANGED <<inputExists, inputFile, outdirExists, geometry, strict, logLevel,
                   block, idx, out_lines, transformed, run, prev>>

\* generate_geometry_file: find_geometry_block and the RuntimeError on None
Locate ==
    /\ pc = "locate"
    /\ LET b == find_geometry_block(all_lines)
           found == LogCall("INFO", "Geometry header not found.", <<>>)
       IN  IF b = None
           THEN /\ exc' = [type |-> "RuntimeError"]
                /\ log' = (IF HeaderIdx(all_lines) = NoIndex THEN <<found>> ELSE <<>>)
                          \o <<LogCall("ERROR", "Failed to generate geometry.txt", <<>>)>>
                /\ exitCode' = 1
                /\ pc' = "done"
                /\ UNCHANGED block
           ELSE /\ block' = b
                /\ pc' = "transform"
                /\ UNCHANGED <<exc, log, exitCode>>
    /\ UNCHANGED swapVars
    /\ UNCHANGED <<inputExists, inputFile, outdirExists, geometry, strict, logLevel,
                   all_lines, idx, out_lines, transformed, run, prev>>

\* a transformation that writes each line to geometry.txt as it is produced
TransformLine_streaming ==
    /\ pc = "transform"
    /\ idx < Len(block.lines)
    /\ LET r == TransformOne(block.lines[idx + 1], strict)
       IN  IF r.raised # None
           THEN /\ Caught(r.raised)
                /\ UNCHANGED <<idx, out_lines, outdirExists, geometry>>
           ELSE /\ out_lines' = Append(out_lines, r.line)
                /\ idx' = idx + 1
                /\ outdirExists' = TRUE
                /\ geometry' = File(Concat(out_lines'))
                /\ log' = IF r.warn
                          THEN Append(log, LogCall("WARNING", "Unrecognized first token", r.tok))
                          ELSE log
                /\ UNCHANGED <<exc, exitCode, pc>>
    /\ UNCHANGED swapVars
    /\ UNCHANGED <<inputExists, inputFile, strict, logLevel,
                   all_lines, block, transformed, run, prev>>

\* transform_geometry_lines: one iteration of the loop over raw_lines
TransformLine ==
    /\ pc = "transform"
    /\ idx < Len(block.lines)
    /\ LET r == TransformOne(block.lines[idx + 1], strict)
       IN  IF r.raised # None
           THEN /\ Caught(r.raised)
                /\ UNCHANGED <<idx, out_lines>>
           ELSE /\ out_lines' = Append(out_lines, r.line)
                /\ idx' = idx + 1
                /\ log' = IF r.warn
                          THEN Append(log, LogCall("WARNING", "Unrecognized first token", r.tok))
                          ELSE log
                /\ UNCHANGED <<exc, exitCode, pc>>
    /\ UNCHANGED swapVars
    /\ UNCHANGED <<inputExists, inputFile, outdirExists, geometry, strict, logLevel,
                   all_lines, block, transformed, run, prev>>

\* transform_geometry_lines returns out_lines to generate_geometry_file
TransformReturn ==
    /\ pc = "transform"
    /\ idx = Len(block.lines)
    /\ transformed' = [lines |-> out_lines]
    /\ pc' = "write"
    /\ UNCHANGED swapVars
    /\ UNCHANGED <<inputExists, inputFile, outdirExists, geometry, strict, logLevel,
                   all_lines, block, idx, out_lines, exc, exitCode, log, run, prev>>

\* generate_geometry_file: write_text_lines and the two logging.info calls;
\* mkdir, open and each f.write may fail with an OSError
WriteGeometry ==
    /\ pc = "write"
    /\ \E o \in {"ok", "mkdir", "open", "write"}, k \in 0..(Len(transformed.lines) - 1) :
         CASE o = "ok" ->
                /\ outdirExists' = TRUE
                /\ geometry' = File(Opened(geometry) \o
                                     Written(transformed.lines, Len(transformed.lines)))
                /\ log' = log \o <<LogCall("INFO", "Wrote geometry", <<>>),
                                   LogCall("INFO", "Geometry saved to", <<>>)>>
                /\ exitCode' = 0
                /\ pc' = "done"
                /\ UNCHANGED exc
           [] o = "mkdir" ->
                /\ ~outdirExists
                /\ k = 0
                /\ Caught([type |-> "OSError", at |-> "mkdir"])
                /\ UNCHANGED <<outdirExists, geometry>>
           [] o = "open" ->
                /\ k = 0
                /\ outdirExists' = TRUE
                /\ Caught([type |-> "OSError", at |-> "open"])
                /\ UNCHANGED geometry
           [] o = "write" ->
                /\ outdirExists' = TRUE
                /\ geometry' = File(Opened(geometry) \o Written(transformed.lines, k))
                /\ Caught([type |-> "OSError", at |-> "write"])
    /\ UNCHANGED swapVars
    /\ UNCHANGED <<inputExists, inputFile, strict, logLevel, all_lines, block, idx,
                   out_lines, transformed, run, prev>>

\* main is started again on the same input with the same --strict
Rerun ==
    /\ pc = "done"
    /\ run < MaxRuns
    /\ run' = run + 1
    /\ prev' = [exitCode |-> exitCode, exc |-> exc,
                geometry |-> geometry, outdirExists |-> outdirExists]
    /\ logLevel' \in LogChoices
    /\ pc' = "main"
    /\ all_lines' = <<>>
    /\ block' = None
    /\ idx' = 0
    /\ out_lines' = <<>>
    /\ transformed' = None
    /\ exc' = None
    /\ exitCode' = Running
    /\ log' = <<>>
    /\ UNCHANGED swapVars
    /\ UNCHANGED <<inputExists, inputFile, outdirExists, geometry, strict>>

Next ==
    \/ CheckInput
    \/ ReadLines
    \/ Locate
    \/ TransformLine
    \/ TransformReturn
    \/ WriteGeometry
    \/ Rerun

\* one run of main
NextOnce ==
    \/ CheckInput
    \/ ReadLines
    \/ Locate
    \/ TransformLine
    \/ TransformReturn
    \/ WriteGeometry

\* runs of main on any input file
Spec == Init /\ [][Next]_vars

\* runs of main on laid-out input files
SpecRows == InitRows /\ [][Next]_vars

\* one run of main on input files with varied header and blank lines
SpecHdr == InitHdr /\ [][NextOnce]_vars

TypeOK ==
    /\ pc \in {"off", "main", "read", "locate", "transform", "write", "done"}
    /\ swap_pc \in {"off", "read", "check", "swap", "done"}
    /\ exitCode \in {Running, 0, 1, 2}
    /\ run \in 1..MaxRuns

(* ------------------------ order.py: line swap -------------------------- *)

\* content_source_map as the dict lists it: <<new_index, old_index>>
content_source_map == << <<30, 19>>, <<19, 30>> >>

\* the keys and the values of content_source_map
indices_involved ==
    {content_source_map[k][1] : k \in 1..Len(content_source_map)}
        \cup {content_source_map[k][2] : k \in 1..Len(content_source_map)}

\* max(indices_involved), -1 for an empty map
max_index_needed ==
    IF indices_involved = {} THEN -1
    ELSE CHOOSE m \in indices_involved : \A i \in indices_involved : i <= m

required_lines == max_index_needed + 1

\* the text of input line i (0-based), without its terminator
LineText(i) == <<"L">> \o Str(i)

\* an input file of n lines, the last one with or without its "\n"
SwapFile(n, terminated) ==
    Concat([i \in 1..n |->
               LineText(i - 1) \o (IF i = n /\ ~terminated THEN <<>> ELSE <<"\n">>)])

\* the parser is not run
ParserIdle ==
    /\ inputExists = FALSE
    /\ inputFile = <<>>
    /\ outdirExists = FALSE
    /\ geometry = NoFile
    /\ strict = FALSE
    /\ logLevel = DefaultLog
    /\ pc = "off"
    /\ all_lines = <<>>
    /\ block = None
    /\ idx = 0
    /\ out_lines = <<>>
    /\ transformed = None
    /\ exc = None
    /\ exitCode = Running
    /\ log = <<>>
    /\ run = 1
    /\ prev = None

\* swap_specific_lines is called on an input file of at most MaxSwapLines
\* lines, or on a missing one; the output file may exist already
InitSwap ==
    /\ ParserIdle
    /\ swap_pc = "read"
    /\ swap_input \in {NoFile} \cup
           {File(SwapFile(n, t)) : n \in 0..MaxSwapLines, t \in BOOLEAN}
    /\ swap_output \in {NoFile, File(Stale)}
    /\ swap_before = swap_output
    /\ original_lines = <<>>
    /\ new_lines = <<>>
    /\ swap_done = 0
    /\ swap_err = <<>>

\* the open and infile.readlines(); a missing file is the FileNotFoundError,
\* a file that cannot be decoded the Exception of the last except clause
SwapRead ==
    /\ swap_pc = "read"
    /\ IF swap_input = NoFile
       THEN /\ swap_err' = Append(swap_err, "input not found")
            /\ swap_pc' = "done"
            /\ UNCHANGED original_lines
       ELSE \E ok \in BOOLEAN :
              IF ok
              THEN /\ original_lines' = readlines(swap_input.data)
                   /\ swap_pc' = "check"
                   /\ UNCHANGED swap_err
              ELSE /\ swap_err' = Append(swap_err, "unexpected error")
                   /\ swap_pc' = "done"
                   /\ UNCHANGED original_lines
    /\ UNCHANGED <<swap_input, swap_output, swap_before, new_lines, swap_done>>
    /\ UNCHANGED <<inputExists, inputFile, outdirExists, geometry, strict, logLevel,
                   pc, all_lines, block, idx, out_lines, transformed, exc,
                   exitCode, log, run, prev>>

\* the check of num_lines against required_lines, and the copy of the list
SwapCheck ==
    /\ swap_pc = "check"
    /\ IF Len(original_lines) < required_lines
       THEN /\ swap_err' = Append(swap_err, "too few lines")
            /\ swap_pc' = "done"
            /\ UNCHANGED new_lines
       ELSE /\ new_lines' = original_lines
            /\ swap_pc' = "swap"
            /\ UNCHANGED swap_err
    /\ UNCHANGED <<swap_input, swap_output, swap_before, original_lines, swap_done>>
    /\ UNCHANGED <<inputExists, inputFile, outdirExists, geometry, strict, logLevel,
                   pc, all_lines, block, idx, out_lines, transformed, exc,
                   exitCode, log, run, prev>>

\* one iteration of the loop over content_source_map.items()
SwapAssign ==
    /\ swap_pc = "swap"
    /\ swap_done < Len(content_source_map)
    /\ LET new_idx == content_source_map[swap_done + 1][1]
           old_idx == content_source_map[swap_done + 1][2]
       IN  new_lines' = [new_lines EXCEPT ![new_idx + 1] = original_lines[old_idx + 1]]
    /\ swap_done' = swap_done + 1
    /\ UNCHANGED <<swap_pc, swap_input, swap_output, swap_before, original_lines,
                   swap_err>>
    /\ UNCHANGED <<inputExists, inputFile, outdirExists, geometry, strict, logLevel,
                   pc, all_lines, block, idx, out_lines, transformed, exc,
                   exitCode, log, run, prev>>

\* the open of the output file and outfile.writelines(new_lines); a failing
\* open is the Exception of the last except clause
SwapWrite ==
    /\ swap_pc = "swap"
    /\ swap_done = Len(content_source_map)
    /\ \E ok \in BOOLEAN :
         IF ok
         THEN /\ swap_output' = File(Concat(new_lines))
              /\ UNCHANGED swap_err
         ELSE /\ swap_err' = Append(swap_err, "unexpected error")
              /\ UNCHANGED swap_output
    /\ swap_pc' = "done"
    /\ UNCHANGED <<swap_input, swap_before, original_lines, new_lines, swap_done>>
    /\ UNCHANGED <<inputExists, inputFile, outdirExists, geometry, strict, logLevel,
                   pc, all_lines, block, idx, out_lines, transformed, exc,
                   exitCode, log, run, prev>>

\* one call of swap_specific_lines
NextSwap ==
    \/ SwapRead
    \/ SwapCheck
    \/ SwapAssign
    \/ SwapWrite

SpecSwap == InitSwap /\ [][NextSwap]_vars

(* ------------------------ properties: locator -------------------------- *)

\* find_geometry_block has just returned: block holds its result, and main
\* either goes on to the transformation or has caught the RuntimeError
Located ==
    \/ pc = "transform" /\ idx = 0
    \/ pc = "done" /\ exc = [type |-> "RuntimeError"]

\* line i (0-based) of the input is empty after trimming whitespace
Blank(i) == \A k \in 1..Len(all_lines[i + 1]) : all_lines[i + 1][k] \in Whitespace

\* the indices of the lines that hold the header
HeaderLines == {i \in 0..(Len(all_lines) - 1) : GEOM_HEADER_PATTERN(all_lines[i + 1])}

\* the index of the first line that holds the header, if there is one
Headers == {h \in HeaderLines : \A j \in HeaderLines : h <= j}

\* h is the index of the first line that holds the header
FirstHeader(h) == h \in Headers

\* exactly k >= 1 non-blank lines follow at h+2, ended by a blank line or the end
RowsAfter(h, k) ==
    /\ k >= 1
    /\ h + 2 + k <= Len(all_lines)
    /\ \A j \in (h + 2)..(h + 2 + k - 1) : ~Blank(j)
    /\ (h + 2 + k = Len(all_lines) \/ Blank(h + 2 + k))

\* C1: with the first header at index h and k >= 1 non-blank lines from h+2
\* up to a blank line or the end, the located block is start = h+2,
\* end = h+2+k, lines = the verbatim slice [h+2, h+2+k) of the input.
C1_BlockExact ==
    Located =>
        \A h \in Headers : \A k \in 1..Len(all_lines) :
            RowsAfter(h, k) =>
                /\ block # None
                /\ block.start_line = h + 2
                /\ block.end_line = h + 2 + k
                /\ Len(block.lines) = k
                /\ \A j \in 1..k : block.lines[j] = all_lines[h + 2 + j]

\* a block of two rows was located two lines after a header that is not
\* the first line, and a blank line ends it
C1_Witness ==
    /\ Located
    /\ block # None
    /\ \E h \in Headers : h > 0 /\ RowsAfter(h, 2) /\ h + 4 < Len(all_lines)
    /\ Len(block.lines) = 2

\* the text example scenario 1 expects in geometry.txt
ExampleOutput == <<"1", "4">> \o Tail(ROW_N) \o <<"1">> \o Tail(ROW_H)

\* C2 as stated: the lines at h+1 and h+2 are both outside the block, and
\* the example with two skipped lines yields exactly the two transformed rows.
C2_TwoLinesSkipped ==
    /\ (Located /\ block # None) =>
           \A h \in Headers : block.start_line > h + 2
    /\ (pc = "done" /\ exc = None) =>
           (inputFile = Scenario(DASHES \o DASHES) => geometry = File(ExampleOutput))

\* C2 as amended: only the line at h+1 is skipped, whatever it holds; the
\* block starts at h+2; with the header at index 5, one line at 6, the two
\* rows at 7 and 8 and a blank line at 9, geometry.txt is the two
\* transformed rows.
C2_OneLineSkipped ==
    /\ (Located /\ block # None) =>
           \A h \in Headers : (block.start_line > h + 1 /\ block.start_line = h + 2)
    /\ (pc = "done" /\ exc = None) =>
           (inputFile = Scenario(DASHES) => geometry = File(ExampleOutput))
    /\ (pc = "done" /\ exc = [type |-> "RuntimeError"]) =>
           inputFile # Scenario(DASHES)

\* the example with one skipped line ran to the end; in another run the line
\* after the header was itself a header line or a blank line
C2_Witness ==
    /\ /\ pc = "done"
       /\ inputFile = Scenario(DASHES)
       /\ exitCode = 0
       /\ FirstHeader(5)
       /\ block.start_line = 7
       /\ block.end_line = 9

\* C9: the locator reports "not found" when no line holds the header, when
\* h+2 is at or beyond the end, and when the line at h+2 is blank after
\* trimming; a block it returns has end > start; in the pipeline "not found"
\* is the block-not-found failure (RuntimeError, exit code 1).
C9_NotFound ==
    /\ Located =>
           LET hs == Headers
           IN  /\ hs = {} => block = None
               /\ \A h \in hs :
                      (h + 2 >= Len(all_lines) \/ Blank(h + 2)) => block = None
    /\ block # None => (block.end_line > block.start_line /\ block.lines # <<>>)
    /\ pc \in {"transform", "write"} => block # None
    /\ (pc = "done" /\ exitCode = 0) => block # None
    /\ (pc = "done" /\ block = None /\ all_lines # <<>>) =>
           (exc = [type |-> "RuntimeError"] /\ exitCode = 1)
    /\ exc = [type |-> "RuntimeError"] => (block = None /\ exitCode = 1)

\* the header is at index 0 and the line at index 2 holds only a space and a
\* tab: not found, and main returned 1
C9_Witness ==
    /\ Located
    /\ FirstHeader(0)
    /\ Len(all_lines) > 3
    /\ all_lines[3] = <<" ", "\t", "\n">>
    /\ block = None
    /\ exitCode = 1

(* ---------------------- properties: transformer ------------------------ *)

\* a line without the "\n" that ends it
Body(line) ==
    IF line # <<>> /\ line[Len(line)] = "\n" THEN SubSeq(line, 1, Len(line) - 1) ELSE line

\* length of the run of whitespace s starts with
LeadLen(s) ==
    CHOOSE a \in 0..Len(s) :
        /\ \A i \in 1..a : s[i] \in Whitespace
        /\ a = Len(s) \/ s[a + 1] \notin Whitespace

\* offset at which the first whitespace-delimited token of s ends
TokenEnd(s) ==
    CHOOSE b \in LeadLen(s)..Len(s) :
        /\ \A i \in (LeadLen(s) + 1)..b : s[i] \notin Whitespace
        /\ b = Len(s) \/ s[b + 1] \in Whitespace

Lead(s) == SubSeq(s, 1, LeadLen(s))

Token(s) == SubSeq(s, LeadLen(s) + 1, TokenEnd(s))

Remainder(s) == SubSeq(s, TokenEnd(s) + 1, Len(s))

\* the four symbols
Symbols == { <<"N">>, <<"C">>, <<"O">>, <<"H">> }

\* the mass the symbol is replaced by, in decimal
MassText(tok) ==
    CASE tok = <<"N">> -> <<"1", "4">>
      [] tok = <<"C">> -> <<"1", "2">>
      [] tok = <<"O">> -> <<"1", "6">>
      [] tok = <<"H">> -> <<"1">>

\* the output line of a block line
Expected(line) ==
    LET s == Body(line)
    IN  Lead(s) \o (IF Token(s) \in Symbols THEN MassText(Token(s)) ELSE Token(s))
                \o Remainder(s) \o <<"\n">>

\* C3: a block line whose first token is exactly N, C, O or H is emitted, in
\* strict and permissive mode alike, as its leading whitespace, the mass 14,
\* 12, 16 or 1, its remainder unchanged, and one line terminator.
C3_MassReplacesSymbol ==
    \A i \in 1..Len(out_lines) :
        LET s == Body(block.lines[i])
        IN  Token(s) \in Symbols =>
                out_lines[i] = Lead(s) \o MassText(Token(s)) \o Remainder(s) \o <<"\n">>

\* in strict mode, the row " H<tab>1 " was emitted as " 1<tab>1 " and the row
\* "C 2" as "12 2"
C3_Witness ==
    /\ strict
    /\ Len(out_lines) = 2
    /\ block.lines[1] = <<" ", "H", "\t", "1", " ", "\n">>
    /\ out_lines[1] = <<" ", "1", "\t", "1", " ", "\n">>
    /\ block.lines[2] = <<"C", " ", "2", "\n">>
    /\ out_lines[2] = <<"1", "2", " ", "2", "\n">>

\* number of "\n" in text
Terminators(text) == Cardinality({i \in 1..Len(text) : text[i] = "\n"})

\* C4: after a successful run geometry.txt holds exactly end - start lines,
\* the i-th being the transformation of input line start + i, in order, each
\* with one line terminator; no line outside [start, end) adds anything.
C4_OutputIsBlock ==
    (pc = "done" /\ exitCode = 0) =>
        LET n == block.end_line - block.start_line
            want == [i \in 1..n |-> Expected(all_lines[block.start_line + i])]
        IN  /\ n >= 1
            /\ geometry = File(Concat(want))
            /\ Terminators(geometry.data) = n
            /\ \A i \in 1..n : want[i][Len(want[i])] = "\n" /\ Terminators(want[i]) = 1

\* a run succeeded on a block of two rows that a blank line and a further
\* line follow; the output holds a line that had no terminator in the block
C4_Witness ==
    /\ pc = "done"
    /\ exitCode = 0
    /\ block.end_line - block.start_line = 2
    /\ block.end_line + 1 < Len(all_lines)
    /\ Terminators(geometry.data) = 2

\* C5: in strict mode the transformation fails at the first block line whose
\* first token is not a symbol of the table; the error carries that token
\* and the sorted symbols C, H, N, O; no later line is processed and no
\* lines are returned.
C5_StrictFailsAtFirst ==
    /\ (exc # None /\ exc.type = "ValueError") =>
           /\ strict
           /\ idx < Len(block.lines)
           /\ Token(Body(block.lines[idx + 1])) \notin Symbols
           /\ exc.token = Token(Body(block.lines[idx + 1]))
           /\ \A i \in 1..idx : Token(Body(block.lines[i])) \in Symbols
           /\ exc.supported = << <<"C">>, <<"H">>, <<"N">>, <<"O">> >>
           /\ Len(out_lines) = idx
           /\ transformed = None
           /\ pc = "done"
    /\ (strict /\ transformed # None) =>
           \A i \in 1..Len(block.lines) : Token(Body(block.lines[i])) \in Symbols

\* strict mode failed on the token "n" in the first of two rows
C5_Witness ==
    /\ strict
    /\ exc # None
    /\ exc.type = "ValueError"
    /\ exc.token = <<"n">>
    /\ idx = 0
    /\ Len(block.lines) = 2

\* the lines of the block transformed so far whose first token is no symbol
Unknown == {i \in 1..Len(out_lines) : Token(Body(block.lines[i])) \notin Symbols}

\* C6: in permissive mode a block line whose first token is not in the table
\* is emitted unchanged but for ending in one terminator, with a warning
\* for it; the other lines are transformed; the unknown token never fails
\* the run, which returns 0 with geometry.txt written unless the file
\* system fails.
C6_PermissivePassesThrough ==
    ~strict =>
        /\ \A i \in Unknown :
               /\ out_lines[i] = Body(block.lines[i]) \o <<"\n">>
               /\ \E j \in 1..Len(log) :
                      log[j].level = "WARNING"
                          /\ log[j].tok = Token(Body(block.lines[i]))
        /\ Cardinality({j \in 1..Len(log) : log[j].level = "WARNING"})
               = Cardinality(Unknown)
        /\ \A i \in (1..Len(out_lines)) \ Unknown :
               out_lines[i] = Expected(block.lines[i])
                   /\ out_lines[i] # Body(block.lines[i]) \o <<"\n">>
        /\ ~(exc # None /\ exc.type = "ValueError")
        /\ (pc = "done" /\ block # None /\ ~(exc # None /\ exc.type = "OSError")) =>
               /\ exitCode = 0
               /\ Len(out_lines) = Len(block.lines)
               /\ geometry = File(Concat(out_lines))

\* a permissive run returned 0 after passing through the row "NH 1", which
\* had no terminator, and transforming the row "N 0"
C6_Witness ==
    /\ ~strict
    /\ pc = "done"
    /\ exitCode = 0
    /\ Len(block.lines) = 2
    /\ block.lines[1] = <<"N", " ", "0", "\n">>
    /\ block.lines[2] = <<"N", "H", " ", "1">>
    /\ geometry = File(<<"1", "4", " ", "0", "\n", "N", "H", " ", "1", "\n">>)

(* ----------------------- properties: pipeline -------------------------- *)

\* e is an error of the file system
IsOSError(e) == e # None /\ e.type = "OSError"

\* C7: main returns 2 exactly when the input does not exist; 1 exactly when
\* it exists and a later step fails (reading, block not found, unknown
\* symbol in strict mode, writing); 0 exactly when geometry.txt was written
\* completely; it returns nothing else.
C7_ExitCodes ==
    /\ pc # "done" => exitCode = Running
    /\ pc = "done" =>
           /\ exitCode \in {0, 1, 2}
           /\ exitCode = 2 <=> ~inputExists
           /\ exitCode = 1 <=> (inputExists /\ exc # None)
           /\ exitCode = 0 <=> (inputExists /\ exc = None)
           /\ exc # None =>
                  \/ exc.type = "OSError" /\ exc.at \in {"read", "mkdir", "open", "write"}
                  \/ exc.type = "RuntimeError" /\ block = None
                  \/ exc.type = "ValueError" /\ strict
           /\ (inputExists /\ all_lines # <<>> /\ block = None) => exitCode = 1
           /\ (strict /\ block # None
                 /\ \E i \in 1..Len(block.lines) : Token(Body(block.lines[i])) \notin Symbols)
                  => exitCode = 1
           /\ exitCode = 0 =>
                  /\ transformed # None
                  /\ outdirExists
                  /\ geometry = File(Concat(transformed.lines))
           /\ (IsOSError(exc) /\ exc.at = "write") =>
                  geometry # File(Concat(transformed.lines))

\* main returned 1 because the second of two writes failed: geometry.txt
\* holds the first line only
C7_Witness ==
    /\ pc = "done"
    /\ exitCode = 1
    /\ IsOSError(exc)
    /\ exc.at = "write"
    /\ Len(transformed.lines) = 2
    /\ geometry = File(transformed.lines[1])

\* C8: the steps run in the order existence check, read, locate, transform,
\* write; when the run stops with input not found, block not found or an
\* unknown symbol in strict mode, the write step was not reached: the output
\* directory and geometry.txt are as the run found them.
C8_NoPartialOutput ==
    /\ pc \in {"main", "read", "locate", "transform", "write"} =>
           (geometry = prev.geometry /\ outdirExists = prev.outdirExists)
    /\ pc = "write" =>
           /\ inputExists
           /\ block # None
           /\ transformed # None
           /\ Len(transformed.lines) = Len(block.lines)
    /\ (pc = "done" /\ (exitCode = 2 \/ (exc # None /\ exc.type \in {"RuntimeError", "ValueError"})))
           => /\ transformed = None
              /\ geometry = prev.geometry
              /\ outdirExists = prev.outdirExists

\* a strict run stopped at an unknown symbol in its second row and left the
\* geometry.txt it found
C8_Witness ==
    /\ pc = "done"
    /\ exc # None
    /\ exc.type = "ValueError"
    /\ idx = 1
    /\ out_lines # <<>>
    /\ geometry = File(Stale)

\* C10: a run on the same input with the same --strict returns the same
\* exit code and leaves the same geometry.txt as the run before it, whatever
\* its --log level and whatever the run before it had found in geometry.txt
\* (the file system not failing in either run).
C10_Idempotent ==
    (run > 1 /\ pc = "done" /\ ~IsOSError(exc) /\ ~IsOSError(prev.exc)) =>
        /\ exitCode = prev.exitCode
        /\ geometry = prev.geometry
        /\ outdirExists = prev.outdirExists

\* the second run, with --log ERROR, hid a warning and wrote the two lines
\* the first run had written
C10_Witness ==
    /\ run = 2
    /\ pc = "done"
    /\ logLevel = "ERROR"
    /\ exitCode = 0
    /\ prev.exitCode = 0
    /\ \E j \in 1..Len(log) : log[j].level = "WARNING" /\ ~log[j].shown
    /\ Len(out_lines) = 2
    /\ geometry = prev.geometry

(* ----------------------- properties: line swap ------------------------- *)

\* the lines of the input file
InputLines == IF swap_input = NoFile THEN <<>> ELSE readlines(swap_input.data)

\* the lines of the output file
OutputLines == IF swap_output = NoFile THEN <<>> ELSE readlines(swap_output.data)

\* the output file holds the input lines with those at 19 and 30 exchanged
Swapped ==
    /\ swap_output # NoFile
    /\ Len(OutputLines) = Len(InputLines)
    /\ \A i \in 0..(Len(InputLines) - 1) :
           OutputLines[i + 1] = InputLines[(CASE i = 19 -> 30
                                              [] i = 30 -> 19
                                              [] OTHER -> i) + 1]

\* C11: given an input file of at least 31 lines, swap_specific_lines writes
\* an output file of as many lines, in which the lines at the 0-based
\* indices 19 and 30 are exchanged and every other line is the input line at
\* its index; given fewer than 31 lines it reports an error and writes no
\* output file.
C11_SwapExact ==
    swap_pc = "done" =>
        /\ (Len(InputLines) >= 31 /\ swap_err = <<>>) => Swapped
        /\ (swap_input # NoFile /\ Len(InputLines) < 31) =>
               (swap_err # <<>> /\ swap_output = swap_before)

\* C11 for the input files whose line at index 30 ends in a line terminator
C11_SwapExactTerminated ==
    swap_pc = "done" =>
        /\ (Len(InputLines) >= 31 /\ swap_err = <<>>
              /\ InputLines[31][Len(InputLines[31])] = "\n") => Swapped
        /\ (swap_input # NoFile /\ Len(InputLines) < 31) =>
               (swap_err # <<>> /\ swap_output = swap_before)

\* a call on an input file of 32 lines wrote the output file
C11_Reached ==
    /\ swap_pc = "done"
    /\ Len(InputLines) = 32
    /\ swap_err = <<>>
    /\ Swapped

=============================================================================
